---- MODULE Spec2Model ----
(***************************************************************************)
(* criterion-cycles-per-byte: the CyclesPerByte measurement (start, end,   *)
(* add, zero over the hardware cycle counter) and its value formatter      *)
(* CyclesPerByteFormatter, modelled from src/src/lib.rs.                   *)
(*                                                                         *)
(* u64 is modelled with U64Bits bits, so that integer overflow happens     *)
(* inside the model; f64 keeps its 53-bit significand.                     *)
(***************************************************************************)
EXTENDS Integers, Sequences, FiniteSets, TLC

\* Width of Intermediate = Value = u64, scaled down.
U64Bits == 8
\* Timed sections the harness thread runs when it runs alone.
MaxSections == 3
\* Timed sections each of the concurrent harness threads runs.
ConcSections == 2

RECURSIVE Pow(_, _)
Pow(b, n) == IF n = 0 THEN 1 ELSE b * Pow(b, n - 1)

U64Max == Pow(2, U64Bits) - 1
U64 == 0 .. U64Max

\* Harness threads that call into the measurement.
Threads == {"A", "B"}
MainThread == "A"

\* Values the hardware counter is observed at.
CounterValues == {0, 1, Pow(2, U64Bits - 1), U64Max - 1, U64Max}
ConcCounterValues == {1, U64Max}

VARIABLES
    tsc,            \* the hardware counter register read by now()
    overflowChecks, \* build profile: are arithmetic overflow checks compiled in
    pc,             \* per thread: "idle" | "timing" | "ended" | "panicked"
    i,              \* per thread: the Intermediate the harness holds
    t1,             \* per thread: history, the reading start() returned
    t2,             \* per thread: history, the reading end() took
    delta,          \* per thread: the Value end() returned
    total,          \* per thread: the harness accumulator, add()ed from zero()
    wide,           \* per thread: history, the sum of the deltas in unbounded integers
    first,          \* per thread: history, the reading of the first start(), -1 before it
    sections,       \* per thread: timed sections started
    iters,          \* timed sections the harness runs on each thread
    wentBack,       \* history: the counter decreased at some point
    backInSection,  \* per thread: history, the counter decreased inside the open section
    a, b, c,        \* inputs of the add() calls
    sums,           \* results of the add() calls made so far
    throughput,     \* formatter input: the Throughput the harness declares
    value,          \* formatter input: the f64 to format
    typical,        \* formatter input: the typical_value hint
    values,         \* formatter input and output: the &mut [f64] slice
    before,         \* history: the slice as it was passed
    fop,            \* the formatter call that has returned, "none" before it
    out,            \* the String format_throughput returned
    label           \* the &'static str a scale_* call returned

mvars == <<tsc, overflowChecks, pc, i, t1, t2, delta, total, wide, first,
           sections, iters, wentBack, backInSection>>
avars == <<a, b, c, sums>>
fvars == <<throughput, value, typical, values, before, fop, out, label>>
vars == <<mvars, avars, fvars>>

(***************************************************************************)
(* Unsigned integers wider than the checker's, as sequences of limbs,      *)
(* least significant first, each limb below Limb = 2^15.                   *)
(***************************************************************************)

Limb == 32768

BIsZero(x) == \A j \in 1 .. Len(x) : x[j] = 0

\* x extended with zero limbs to n limbs.
BPad(x, n) == [j \in 1 .. (IF Len(x) > n THEN Len(x) ELSE n) |->
                  IF j <= Len(x) THEN x[j] ELSE 0]

\* x without its zero limbs at the top.
RECURSIVE BTrim(_)
BTrim(x) ==
    IF Len(x) > 0 /\ x[Len(x)] = 0 THEN BTrim(SubSeq(x, 1, Len(x) - 1)) ELSE x

\* x * w + carry for 0 <= w, carry < Limb: one limb longer than x.
RECURSIVE BMulFrom(_, _, _, _)
BMulFrom(x, w, j, carry) ==
    IF j > Len(x) THEN <<carry>>
    ELSE LET t == x[j] * w + carry
         IN  <<t % Limb>> \o BMulFrom(x, w, j + 1, t \div Limb)
BMul(x, w) == BMulFrom(x, w, 1, 0)

\* x + 1, as long as x or one limb longer.
BInc(x) == BTrim(BMulFrom(x, 1, 1, 1))

\* 2 * x in the limbs of x (the caller knows it fits).
BDbl(x) == SubSeq(BMul(x, 2), 1, Len(x))

\* x \div 2 in the limbs of x.
BHalf(x) == [j \in 1 .. Len(x) |->
                (x[j] \div 2) + (IF j < Len(x) THEN (x[j + 1] % 2) * (Limb \div 2) ELSE 0)]

\* x >= y for x, y of the same length.
RECURSIVE BGeFrom(_, _, _)
BGeFrom(x, y, j) ==
    IF j = 0 THEN TRUE
    ELSE IF x[j] # y[j] THEN x[j] > y[j]
    ELSE BGeFrom(x, y, j - 1)
BGe(x, y) == BGeFrom(x, y, Len(x))

\* x - y for x >= y of the same length.
RECURSIVE BSubFrom(_, _, _, _)
BSubFrom(x, y, j, borrow) ==
    IF j > Len(x) THEN <<>>
    ELSE LET t == x[j] - y[j] - borrow
         IN  <<IF t < 0 THEN t + Limb ELSE t>>
                 \o BSubFrom(x, y, j + 1, IF t < 0 THEN 1 ELSE 0)
BSub(x, y) == BSubFrom(x, y, 1, 0)

\* x \div w and x % w for 0 < w < Limb.
RECURSIVE BDivFrom(_, _, _, _)
BDivFrom(x, w, j, rem) ==
    IF j = 0 THEN [q |-> <<>>, r |-> rem]
    ELSE LET t == rem * Limb + x[j]
             low == BDivFrom(x, w, j - 1, t % w)
         IN  [q |-> low.q \o <<t \div w>>, r |-> low.r]
BDivSmall(x, w) == BDivFrom(x, w, Len(x), 0)

\* x * 2^n.
RECURSIVE BShl(_, _)
BShl(x, n) ==
    IF n = 0 THEN x
    ELSE IF n >= 15 THEN BShl(<<0>> \o x, n - 15)
    ELSE BMul(x, Pow(2, n))

\* x in decimal digits.
RECURSIVE BDecimal(_)
BDecimal(x) ==
    LET d == BDivSmall(x, 10) IN
    (IF BIsZero(d.q) THEN "" ELSE BDecimal(d.q)) \o ToString(d.r)

(***************************************************************************)
(* f64: a finite value is (-1)^s * m * 2^e, where m is zero (with e = 0)   *)
(* or has exactly F64MantBits = 53 bits, 2^52 <= m < 2^53, held in four    *)
(* limbs; the other values are the infinities and NaN. The exponent is not *)
(* bounded: the inputs drawn below stay far from the overflow and          *)
(* underflow thresholds of the format.                                     *)
(***************************************************************************)

F64MantBits == 53

BZero4 == <<0, 0, 0, 0>>
Inf(s) == [k |-> "inf", s |-> s, m |-> BZero4, e |-> 0]
NaN == [k |-> "nan", s |-> 0, m |-> BZero4, e |-> 0]
FZero(s) == [k |-> "fin", s |-> s, m |-> BZero4, e |-> 0]
IsZero(x) == x.k = "fin" /\ BIsZero(x.m)

RECURSIVE BitLen(_)
BitLen(n) == IF n = 0 THEN 0 ELSE 1 + BitLen(n \div 2)

\* The f64 (-1)^s * n * 2^e for an integer 0 <= n < 2^31, which has at most
\* 53 bits and is held exactly.
Fin(s, n, e) ==
    IF n = 0 THEN FZero(s)
    ELSE LET sh == F64MantBits - BitLen(n)
         IN  [k |-> "fin", s |-> s,
              m |-> SubSeq(BPad(BShl(<<n % Limb, (n \div Limb) % Limb,
                                       n \div (Limb * Limb)>>, sh), 4), 1, 4),
              e |-> e - sh]

\* `*n as f64`: u64 to f64, to nearest, ties to even. Every u64 the model
\* holds is below 2^53, where the conversion is exact.
U64ToF64(n) == Fin(0, n, 0)

Xor(s1, s2) == IF s1 = s2 THEN 0 ELSE 1

\* Long division of r by d (r < 2 * d), one quotient bit per step: the next n
\* bits of r / d, most significant first, and the remainder left to divide
\* (once nothing is left, the bits that follow are zeros).
RECURSIVE DivBits(_, _, _)
DivBits(r, d, n) ==
    IF n = 0 THEN [bits |-> <<>>, r |-> r]
    ELSE IF BIsZero(r) THEN [bits |-> [j \in 1 .. n |-> 0], r |-> r]
    ELSE LET bit == BGe(r, d)
             rest == DivBits(BDbl(IF bit THEN BSub(r, d) ELSE r), d, n - 1)
         IN  [bits |-> <<IF bit THEN 1 ELSE 0>> \o rest.bits, r |-> rest.r]

\* The same division, nine bits at a time.
RECURSIVE DivNines(_, _, _)
DivNines(r, d, n) ==
    IF n = 0 THEN [bits |-> <<>>, sticky |-> ~BIsZero(r)]
    ELSE LET first9 == DivBits(r, d, 9)
             rest == DivNines(first9.r, d, n - 1)
         IN  [bits |-> first9.bits \o rest.bits, sticky |-> rest.sticky]

\* The number whose binary digits, most significant first, are bits.
RECURSIVE BitsValue(_)
BitsValue(bits) ==
    IF bits = <<>> THEN 0
    ELSE 2 * BitsValue(SubSeq(bits, 1, Len(bits) - 1)) + bits[Len(bits)]

\* The four limbs of the number whose 53 binary digits are bits.
BitsToLimbs(bits) ==
    [j \in 1 .. 4 |->
        LET hi == Len(bits) - 15 * (j - 1)
            lo == IF hi - 14 < 1 THEN 1 ELSE hi - 14
        IN  BitsValue(SubSeq(bits, lo, hi))]

\* The quotient of two finite nonzero f64, rounded to 53 bits, to nearest,
\* ties to even.
DivFinite(x, y) ==
    LET below == ~BGe(x.m, y.m)
        r == IF below THEN BDbl(x.m) ELSE x.m
        ex == IF below THEN x.e - y.e - 1 ELSE x.e - y.e
        d == DivNines(r, y.m, (F64MantBits + 1) \div 9)
        kept == BitsToLimbs(SubSeq(d.bits, 1, F64MantBits))
        guard == d.bits[F64MantBits + 1] = 1
        up == guard /\ (d.sticky \/ kept[1] % 2 = 1)
        m1 == IF up THEN SubSeq(BPad(BInc(kept), 4), 1, 4) ELSE kept
        carried == m1[4] >= Pow(2, F64MantBits - 45)
    IN  [k |-> "fin", s |-> Xor(x.s, y.s),
         m |-> IF carried THEN BHalf(m1) ELSE m1,
         e |-> ex - (F64MantBits - 1) + (IF carried THEN 1 ELSE 0)]

\* A division that returns 0 instead of dividing by zero.
FDivGuarded(x, y) ==
    IF IsZero(y) THEN FZero(0)
    ELSE IF x.k = "fin" /\ y.k = "fin" /\ ~IsZero(x) THEN DivFinite(x, y)
    ELSE x
\* f64 `/`: IEEE 754 division.
FDiv(x, y) ==
    IF x.k = "nan" \/ y.k = "nan" THEN NaN
    ELSE IF x.k = "inf" THEN (IF y.k = "inf" THEN NaN ELSE Inf(Xor(x.s, y.s)))
    ELSE IF y.k = "inf" THEN FZero(Xor(x.s, y.s))
    ELSE IF IsZero(y) THEN (IF IsZero(x) THEN NaN ELSE Inf(Xor(x.s, y.s)))
    ELSE IF IsZero(x) THEN FZero(Xor(x.s, y.s))
    ELSE DivFinite(x, y)

\* The next nd decimal digits of the fraction frac / Limb^Len(frac), as a
\* number, and the fraction left below them.
RECURSIVE FracDigits(_, _, _)
FracDigits(frac, nd, acc) ==
    IF nd = 0 THEN [f |-> acc, rem |-> frac]
    ELSE LET t == BMul(frac, 10)
         IN  FracDigits(SubSeq(t, 1, Len(frac)), nd - 1, acc * 10 + t[Len(t)])

Pad4(f) ==
    (IF f < 10 THEN "000" ELSE IF f < 100 THEN "00" ELSE IF f < 1000 THEN "0" ELSE "")
        \o ToString(f)

\* format!("{:.4}", x): four decimals, the exact value rounded half to even.
Fmt4(x) ==
    IF x.k = "nan" THEN "NaN"
    ELSE IF x.k = "inf" THEN (IF x.s = 1 THEN "-inf" ELSE "inf")
    ELSE
        LET sign == IF x.s = 1 THEN "-" ELSE ""
            \* limbs of the fraction: the value is scaled / Limb^nl
            nl == IF x.e < 0 THEN ((-x.e) + 14) \div 15 ELSE 0
            scaled == BPad(BShl(x.m, nl * 15 + x.e), nl + 1)
            whole == SubSeq(scaled, nl + 1, Len(scaled))
            d == FracDigits(SubSeq(scaled, 1, nl), 4, 0)
            top == IF nl = 0 THEN 0 ELSE d.rem[nl]
            lowZero == \A j \in 1 .. nl - 1 : d.rem[j] = 0
            above == top > Limb \div 2 \/ (top = Limb \div 2 /\ ~lowZero)
            tie == top = Limb \div 2 /\ lowZero
            f == IF above \/ (tie /\ d.f % 2 = 1) THEN d.f + 1 ELSE d.f
        IN  sign \o BDecimal(IF f = 10000 THEN BInc(whole) ELSE whole)
                 \o "." \o Pad4(IF f = 10000 THEN 0 ELSE f)

(***************************************************************************)
(* CyclesPerByteFormatter                                                  *)
(***************************************************************************)

Bytes(n) == [kind |-> "Bytes", n |-> n]
Elements(n) == [kind |-> "Elements", n |-> n]
BytesDecimal(n) == [kind |-> "BytesDecimal", n |-> n]

\* format_throughput with Elements divided like the byte variants.
format_throughput_divides(thr, v) ==
    CASE thr.kind = "Bytes" -> Fmt4(FDiv(v, U64ToF64(thr.n))) \o " cpb"
      [] thr.kind = "Elements" ->
            Fmt4(FDiv(v, U64ToF64(thr.n))) \o " cycles/" \o ToString(thr.n)
      [] thr.kind = "BytesDecimal" -> Fmt4(FDiv(v, U64ToF64(thr.n))) \o " cpb (decimal)"
\* fn format_throughput(&self, throughput, value) -> String
format_throughput(thr, v) ==
    CASE thr.kind = "Bytes" -> Fmt4(FDiv(v, U64ToF64(thr.n))) \o " cpb"
      [] thr.kind = "Elements" -> Fmt4(v) \o " cycles/" \o ToString(thr.n)
      [] thr.kind = "BytesDecimal" -> Fmt4(FDiv(v, U64ToF64(thr.n))) \o " cpb (decimal)"

\* A scale_values that rescales by the typical_value hint.
scale_values_by_typical(typ, vals) ==
    [values |-> [j \in 1 .. Len(vals) |-> FDiv(vals[j], typ)], label |-> "cycles"]
\* fn scale_values(&self, _typical_value, _values) -> &'static str: the slice
\* as it is after the call, and the label.
scale_values(typ, vals) == [values |-> vals, label |-> "cycles"]

\* A scale_throughputs whose loop stops one element early.
scale_throughputs_skips_last(typ, thr, vals) ==
    [values |-> [j \in 1 .. Len(vals) |->
                    IF j = Len(vals) /\ j > 1 THEN vals[j]
                    ELSE FDiv(vals[j], U64ToF64(thr.n))],
     label |-> CASE thr.kind = "Bytes" -> "cpb"
                 [] thr.kind = "Elements" -> "c/e"
                 [] thr.kind = "BytesDecimal" -> "cpb (decimal)"]
\* fn scale_throughputs(&self, _typical_value, throughput, values) -> &'static str
scale_throughputs(typ, thr, vals) ==
    CASE thr.kind = "Bytes" ->
            [values |-> [j \in 1 .. Len(vals) |-> FDiv(vals[j], U64ToF64(thr.n))],
             label |-> "cpb"]
      [] thr.kind = "Elements" ->
            [values |-> [j \in 1 .. Len(vals) |-> FDiv(vals[j], U64ToF64(thr.n))],
             label |-> "c/e"]
      [] thr.kind = "BytesDecimal" ->
            [values |-> [j \in 1 .. Len(vals) |-> FDiv(vals[j], U64ToF64(thr.n))],
             label |-> "cpb (decimal)"]

\* fn scale_for_machines(&self, _values) -> &'static str
scale_for_machines(vals) == [values |-> vals, label |-> "cycles"]

\* Inputs of the formatter calls.
MaxLen == 2
DenominatorInputs == {0, 1, 2, 3, 4, 5, 16, 129, U64Max}
ThroughputInputs ==
    {Bytes(n) : n \in DenominatorInputs} \cup {Elements(n) : n \in DenominatorInputs}
        \cup {BytesDecimal(n) : n \in DenominatorInputs}
F64Inputs ==
    {Fin(0, 0, 0), Fin(0, 1, 3), Fin(0, 1, 4), Fin(0, 125, 3), Fin(0, 25, 7),
     Fin(0, 1, -5), Fin(1, 1, 3), Inf(0), NaN}
SliceElements == {Fin(0, 0, 0), Fin(0, 1, 3), Fin(0, 1, 4), Fin(1, 3, 0), NaN}
TypicalInputs == {Fin(0, 1, 1), Fin(0, 125, 3)}
SliceInputs == UNION {[1 .. n -> SliceElements] : n \in 0 .. MaxLen}

FormatThroughput ==
    /\ fop = "none"
    /\ fop' = "format_throughput"
    /\ out' = format_throughput(throughput, value)
    /\ UNCHANGED <<throughput, value, typical, values, before, label>>
    /\ UNCHANGED <<mvars, avars>>

ScaleValues ==
    /\ fop = "none"
    /\ fop' = "scale_values"
    /\ LET r == scale_values(typical, values) IN
        /\ values' = r.values
        /\ label' = r.label
    /\ UNCHANGED <<throughput, value, typical, before, out>>
    /\ UNCHANGED <<mvars, avars>>

ScaleThroughputs ==
    /\ fop = "none"
    /\ fop' = "scale_throughputs"
    /\ LET r == scale_throughputs(typical, throughput, values) IN
        /\ values' = r.values
        /\ label' = r.label
    /\ UNCHANGED <<throughput, value, typical, before, out>>
    /\ UNCHANGED <<mvars, avars>>

ScaleForMachines ==
    /\ fop = "none"
    /\ fop' = "scale_for_machines"
    /\ LET r == scale_for_machines(values) IN
        /\ values' = r.values
        /\ label' = r.label
    /\ UNCHANGED <<throughput, value, typical, before, out>>
    /\ UNCHANGED <<mvars, avars>>

FInputs(T, V, Y, S) ==
    /\ throughput \in T
    /\ value \in V
    /\ typical \in Y
    /\ values \in S
    /\ before = values
    /\ fop = "none"
    /\ out = ""
    /\ label = ""

FIdle == FInputs({Bytes(4)}, {Fin(0, 1, 3)}, {Fin(0, 1, 1)}, {<<Fin(0, 1, 3), Fin(0, 1, 4)>>})


(***************************************************************************)
(* Measurement                                                             *)
(***************************************************************************)

\* fn now() -> u64: one read of the counter register.
now == tsc

\* u64::wrapping_sub in the place of saturating_sub.
WrappingSub(x, y) == (x - y + Pow(2, U64Bits)) % Pow(2, U64Bits)
\* u64::saturating_sub
SaturatingSub(x, y) == IF x >= y THEN x - y ELSE 0

\* fn start(&self) -> u64
start == now

\* A zero() that is not the identity.
OneCycle == 0 + 1
\* fn zero(&self) -> u64
zero == 0

\* u64::saturating_add in the place of `+`.
SaturatingAdd(v1, v2) ==
    [ok |-> TRUE, v |-> IF v1 + v2 > U64Max THEN U64Max ELSE v1 + v2]
\* An add that drops its second argument.
FirstOnly(v1, v2) == [ok |-> TRUE, v |-> v1]
\* fn add(&self, v1, v2) -> u64: `v1 + v2` on u64. A sum above u64::MAX panics
\* when overflow checks are compiled in (ok = FALSE) and wraps otherwise.
add(v1, v2) ==
    IF v1 + v2 <= U64Max THEN [ok |-> TRUE, v |-> v1 + v2]
    ELSE IF overflowChecks THEN [ok |-> FALSE, v |-> 0]
    ELSE [ok |-> TRUE, v |-> (v1 + v2) % Pow(2, U64Bits)]

\* End with the arguments of the subtraction exchanged.
endSwapped(reading, im) == SaturatingSub(im, reading)
\* fn end(&self, i) -> u64, with the reading now() returns
end(reading, im) == SaturatingSub(reading, im)

\* The hardware moves the counter: forward, or backward (a reset, a wrap, a
\* migration to a core whose counter is behind).
CounterMove(S) ==
    /\ \E n \in S \ {tsc} :
        /\ tsc' = n
        /\ wentBack' = (wentBack \/ n < tsc)
        /\ backInSection' =
              [t \in Threads |-> backInSection[t] \/ (pc[t] = "timing" /\ n < tsc)]
    /\ UNCHANGED <<overflowChecks, pc, i, t1, t2, delta, total, wide, first, sections, iters>>
    /\ UNCHANGED <<avars, fvars>>

\* A start() that keeps the reading in one cell shared by all threads.
StartShared(t) ==
    /\ pc[t] = "idle"
    /\ sections[t] < iters
    /\ pc' = [pc EXCEPT ![t] = "timing"]
    /\ i' = [u \in Threads |-> start]
    /\ t1' = [t1 EXCEPT ![t] = now]
    /\ first' = [first EXCEPT ![t] = IF first[t] = -1 THEN now ELSE first[t]]
    /\ sections' = [sections EXCEPT ![t] = sections[t] + 1]
    /\ backInSection' = [backInSection EXCEPT ![t] = FALSE]
    /\ UNCHANGED <<tsc, overflowChecks, t2, delta, total, wide, iters, wentBack>>
    /\ UNCHANGED <<avars, fvars>>
\* The harness calls start() and keeps the Intermediate.
Start(t) ==
    /\ pc[t] = "idle"
    /\ sections[t] < iters
    /\ pc' = [pc EXCEPT ![t] = "timing"]
    /\ i' = [i EXCEPT ![t] = start]
    /\ t1' = [t1 EXCEPT ![t] = now]
    /\ first' = [first EXCEPT ![t] = IF first[t] = -1 THEN now ELSE first[t]]
    /\ sections' = [sections EXCEPT ![t] = sections[t] + 1]
    /\ backInSection' = [backInSection EXCEPT ![t] = FALSE]
    /\ UNCHANGED <<tsc, overflowChecks, t2, delta, total, wide, iters, wentBack>>
    /\ UNCHANGED <<avars, fvars>>

\* The harness calls end(i) with the Intermediate it kept.
End(t) ==
    /\ pc[t] = "timing"
    /\ pc' = [pc EXCEPT ![t] = "ended"]
    /\ t2' = [t2 EXCEPT ![t] = now]
    /\ delta' = [delta EXCEPT ![t] = end(now, i[t])]
    /\ UNCHANGED <<tsc, overflowChecks, i, t1, total, wide, first, sections,
                   iters, wentBack, backInSection>>
    /\ UNCHANGED <<avars, fvars>>

\* The harness accumulates the delta: total = add(total, delta). A panic
\* unwinds the thread.
Accumulate(t) ==
    /\ pc[t] = "ended"
    /\ LET r == add(total[t], delta[t]) IN
        /\ pc' = [pc EXCEPT ![t] = IF r.ok THEN "idle" ELSE "panicked"]
        /\ total' = [total EXCEPT ![t] = IF r.ok THEN r.v ELSE total[t]]
    /\ wide' = [wide EXCEPT ![t] = wide[t] + delta[t]]
    /\ UNCHANGED <<tsc, overflowChecks, i, t1, t2, delta, first, sections,
                   iters, wentBack, backInSection>>
    /\ UNCHANGED <<avars, fvars>>

MInit(S, n) ==
    /\ tsc \in S
    /\ iters = n
    /\ overflowChecks \in BOOLEAN
    /\ pc = [t \in Threads |-> "idle"]
    /\ i = [t \in Threads |-> 0]
    /\ t1 = [t \in Threads |-> 0]
    /\ t2 = [t \in Threads |-> 0]
    /\ delta = [t \in Threads |-> 0]
    /\ total = [t \in Threads |-> zero]
    /\ wide = [t \in Threads |-> 0]
    /\ first = [t \in Threads |-> -1]
    /\ sections = [t \in Threads |-> 0]
    /\ wentBack = FALSE
    /\ backInSection = [t \in Threads |-> FALSE]

AIdle ==
    /\ a = 0 /\ b = 0 /\ c = 0
    /\ sums = [k \in {} |-> 0]

Init == MInit(CounterValues, MaxSections) /\ AIdle /\ FIdle

Next ==
    \/ CounterMove(CounterValues)
    \/ Start(MainThread)
    \/ End(MainThread)
    \/ Accumulate(MainThread)

Spec == Init /\ [][Next]_vars

(***************************************************************************)
(* add() and zero() as pure functions: the harness combines samples        *)
(***************************************************************************)

AddInputs == {0, 1, Pow(2, U64Bits - 1), U64Max - 1, U64Max}

Done(k) == k \in DOMAIN sums

\* add(a, b), add(b, a), add(b, c)
AddPair ==
    /\ \E k \in {"ab", "ba", "bc"} :
        /\ ~Done(k)
        /\ sums' = sums @@ (k :> (CASE k = "ab" -> add(a, b)
                                    [] k = "ba" -> add(b, a)
                                    [] k = "bc" -> add(b, c)))
    /\ UNCHANGED <<a, b, c>>
    /\ UNCHANGED <<mvars, fvars>>

\* add(add(a, b), c) and add(a, add(b, c)): a panic of the inner call unwinds
\* the whole expression.
AddNested ==
    /\ \/ /\ Done("ab") /\ ~Done("ab_c")
          /\ sums' = sums @@ ("ab_c" :> (IF sums["ab"].ok THEN add(sums["ab"].v, c)
                                         ELSE sums["ab"]))
       \/ /\ Done("bc") /\ ~Done("a_bc")
          /\ sums' = sums @@ ("a_bc" :> (IF sums["bc"].ok THEN add(a, sums["bc"].v)
                                         ELSE sums["bc"]))
    /\ UNCHANGED <<a, b, c>>
    /\ UNCHANGED <<mvars, fvars>>

\* add(a, zero()) and add(zero(), a)
AddZero ==
    /\ \E k \in {"az", "za"} :
        /\ ~Done(k)
        /\ sums' = sums @@ (k :> (IF k = "az" THEN add(a, zero) ELSE add(zero, a)))
    /\ UNCHANGED <<a, b, c>>
    /\ UNCHANGED <<mvars, fvars>>

AddInit ==
    /\ MInit({0}, 0)
    /\ a \in AddInputs /\ b \in AddInputs /\ c \in AddInputs
    /\ sums = [k \in {} |-> 0]
    /\ FIdle

AddNext == AddPair \/ AddNested \/ AddZero

AddSpec == AddInit /\ [][AddNext]_vars

(***************************************************************************)
(* The formatter calls, each on inputs drawn from the sets above           *)
(***************************************************************************)

FmtInit ==
    /\ MInit({0}, 0)
    /\ AIdle
    \* a call reads the value or the slice, never both: one of them is drawn
    /\ \/ FInputs(ThroughputInputs, F64Inputs, TypicalInputs,
                  {<<Fin(0, 1, 3), Fin(0, 1, 4)>>})
       \/ FInputs(ThroughputInputs, {Fin(0, 1, 3)}, TypicalInputs, SliceInputs)

FmtNext == FormatThroughput \/ ScaleValues \/ ScaleThroughputs \/ ScaleForMachines

FmtSpec == FmtInit /\ [][FmtNext]_vars

(***************************************************************************)
(* Several harness threads calling into the measurement and the formatter  *)
(***************************************************************************)

ConcInit == MInit(ConcCounterValues, ConcSections) /\ AIdle /\ FIdle

ConcNext ==
    \/ CounterMove(ConcCounterValues)
    \/ \E t \in Threads : Start(t)
    \/ \E t \in Threads : End(t)
    \/ \E t \in Threads : Accumulate(t)
    \/ ScaleThroughputs

ConcSpec == ConcInit /\ [][ConcNext]_vars

(***************************************************************************)
(* Claims about the measurement                                            *)
(***************************************************************************)

\* C1: whenever end(t1) has returned, with t1 the value start() returned and t2
\* the reading end took, its result is t2 - t1 if t2 >= t1 and 0 if t2 < t1;
\* it is a u64 (nothing wrapped) and the call completed.
C1_EndSaturates ==
    \A t \in Threads :
        pc[t] = "ended" =>
            /\ delta[t] = (IF t2[t] >= t1[t] THEN t2[t] - t1[t] ELSE 0)
            /\ delta[t] \in U64

\* C1 witness: end has returned in a section whose end reading is below its
\* start reading.
C1_Witness ==
    /\ pc[MainThread] = "ended"
    /\ t2[MainThread] < t1[MainThread]
    /\ delta[MainThread] = 0

\* C2 as stated: add(a, b) returns a + b for all a and b, also when the sum is
\* above u64::MAX.
C2_Original ==
    Done("ab") => (sums["ab"].ok /\ sums["ab"].v = a + b)

\* C2 amended: add(v1, v2) returns v1 + v2 when the sum is at most u64::MAX; for
\* a larger sum it panics in a build with overflow checks and returns
\* v1 + v2 - 2^64 in a build without them.
C2_AddSumOrOverflow ==
    \A k \in {"ab", "ba", "bc"} :
        Done(k) =>
            LET x == IF k = "ab" THEN a ELSE b
                y == IF k = "ab" THEN b ELSE IF k = "ba" THEN a ELSE c
                r == sums[k]
            IN  IF x + y <= U64Max THEN r.ok /\ r.v = x + y
                ELSE IF overflowChecks THEN ~r.ok
                ELSE r.ok /\ r.v = x + y - (U64Max + 1)

\* C2 witness: add has returned for a pair whose sum is above u64::MAX, in a
\* build without overflow checks.
C2_Witness ==
    /\ Done("ab")
    /\ a + b > U64Max
    /\ ~overflowChecks
    /\ sums["ab"].v < a

\* C3: add(a, b) and add(b, a) have the same outcome, and so do
\* add(add(a, b), c) and add(a, add(b, c)): the same value, or a panic in both.
C3_AddCommutesAssociates ==
    /\ (Done("ab") /\ Done("ba")) => sums["ab"] = sums["ba"]
    /\ (Done("ab_c") /\ Done("a_bc")) => sums["ab_c"] = sums["a_bc"]

\* C3 witness: both groupings of three different samples have been added, and
\* one of the inner sums overflows while the other does not.
C3_Witness ==
    /\ Done("ab_c") /\ Done("a_bc") /\ Done("ba")
    /\ a # b /\ b # c /\ a # c
    /\ a + b > U64Max
    /\ b + c <= U64Max

\* C4: add(v, zero()) and add(zero(), v) return v.
C4_ZeroIsIdentity ==
    /\ Done("az") => (sums["az"].ok /\ sums["az"].v = a)
    /\ Done("za") => (sums["za"].ok /\ sums["za"].v = a)

\* C4 witness: zero() has been added on both sides of u64::MAX.
C4_Witness ==
    /\ Done("az") /\ Done("za")
    /\ a = U64Max

\* The latest reading a thread has taken of the counter.
LatestReading(t) == IF pc[t] = "timing" THEN t1[t] ELSE t2[t]

\* C10 as stated: while the counter never decreases the total is at most the
\* latest reading minus the first start's reading and the accumulation does
\* not overflow; a section inside which the counter went backward
\* contributes exactly 0.
C10_Original ==
    \A t \in Threads :
        /\ (~wentBack /\ first[t] # -1) =>
               /\ pc[t] # "panicked"
               /\ total[t] = wide[t]
               /\ wide[t] <= LatestReading(t) - first[t]
        /\ (pc[t] = "ended" /\ backInSection[t]) => delta[t] = 0

\* C10 amended: while the counter never decreases the total is at most the
\* latest reading minus the first start's reading and the accumulation does
\* not overflow; a section whose end reading is below its start reading
\* contributes exactly 0 and adding it leaves the total unchanged.
C10_TotalBounded ==
    /\ [](\A t \in Threads :
            (~wentBack /\ first[t] # -1) =>
               /\ pc[t] # "panicked"
               /\ total[t] = wide[t]
               /\ wide[t] <= LatestReading(t) - first[t])
    /\ [][\A t \in Threads :
            (pc[t] = "ended" /\ t2[t] < t1[t] /\ pc'[t] # "ended") =>
               /\ delta[t] = 0
               /\ pc'[t] = "idle"
               /\ total'[t] = total[t]]_vars

\* C10 witness: a section whose end reading is below its start reading has been
\* added to a total that earlier sections made positive.
C10_Witness ==
    /\ pc[MainThread] = "idle"
    /\ sections[MainThread] >= 2
    /\ t2[MainThread] < t1[MainThread]
    /\ total[MainThread] > 0
    /\ total[MainThread] = wide[MainThread]

\* What a harness thread holds of the measurement.
Locals(t) == <<pc[t], i[t], delta[t], total[t]>>

\* C9: under every interleaving of the threads' calls, end(i) returns to a
\* thread the saturated difference of the reading it takes and the value
\* start() returned to that thread, add returns the sum (or overflows) of
\* that thread's own two values, a step that changes what one thread holds
\* changes nothing another thread or the formatter's caller holds, and the
\* next call of every thread can always be taken.
C9_ThreadsIndependent ==
    /\ [](\A t \in Threads :
            /\ (pc[t] = "idle" /\ sections[t] < iters) => ENABLED Start(t)
            /\ pc[t] = "timing" => ENABLED End(t)
            /\ pc[t] = "ended" => ENABLED Accumulate(t))
    /\ [][\A t \in Threads :
            /\ (pc[t] = "timing" /\ pc'[t] = "ended") =>
                  delta'[t] = (IF tsc >= t1[t] THEN tsc - t1[t] ELSE 0)
            /\ (pc[t] = "ended" /\ pc'[t] # "ended") =>
                  LET s == total[t] + delta[t] IN
                  IF s <= U64Max THEN pc'[t] = "idle" /\ total'[t] = s
                  ELSE IF overflowChecks THEN pc'[t] = "panicked"
                  ELSE pc'[t] = "idle" /\ total'[t] = s - (U64Max + 1)
            /\ (Locals(t)' # Locals(t)) =>
                  /\ \A u \in Threads \ {t} : Locals(u)' = Locals(u)
                  /\ UNCHANGED fvars]_vars

\* C9 witness: one thread's end has returned a positive delta while the other
\* thread, which started at another reading, is inside its second section and
\* a formatter call has been made.
C9_Witness ==
    /\ pc["A"] = "ended" /\ pc["B"] = "timing"
    /\ t1["B"] # t1["A"]
    /\ delta["A"] > 0
    /\ total["B"] > 0
    /\ fop = "scale_throughputs"

(***************************************************************************)
(* Claims about the formatter                                              *)
(***************************************************************************)

LabelOf(thr) ==
    IF thr.kind = "Bytes" THEN "cpb"
    ELSE IF thr.kind = "Elements" THEN "c/e"
    ELSE "cpb (decimal)"

\* C5: after scale_throughputs the slice has its length, element j is the
\* element passed at j divided by the throughput's count n (as an f64), and
\* the label is "cpb" for Bytes, "c/e" for Elements and "cpb (decimal)" for
\* BytesDecimal, whatever typical_value is; Bytes(4) with [8, 16] gives
\* [2, 4] and "cpb".
C5_ScaleThroughputsDivides ==
    fop = "scale_throughputs" =>
        /\ Len(values) = Len(before)
        /\ \A j \in 1 .. Len(before) :
              values[j] = FDiv(before[j], U64ToF64(throughput.n))
        /\ label = LabelOf(throughput)
        /\ (throughput = Bytes(4) /\ before = <<Fin(0, 1, 3), Fin(0, 1, 4)>>) =>
              (values = <<Fin(0, 1, 1), Fin(0, 1, 2)>> /\ label = "cpb")
        /\ (throughput.n = 3 /\ Len(before) = 2 /\ before[2] = Fin(1, 3, 0)) =>
              values[2] = Fin(1, 1, 0)

\* C5 witness: scale_throughputs has returned for Elements(3) and a slice of
\* two different elements, the second one -3.
C5_Witness ==
    /\ fop = "scale_throughputs"
    /\ throughput = Elements(3)
    /\ Len(before) = 2
    /\ before[1] = Fin(0, 1, 4)
    /\ before[2] = Fin(1, 3, 0)
    /\ values[1] # before[1]

\* C6: format_throughput shows value / n to four decimals followed by " cpb"
\* for Bytes(n) and by " cpb (decimal)" for BytesDecimal(n), and shows value,
\* not divided, followed by " cycles/n" for Elements(n); 3200 with Bytes(16)
\* is "200.0000 cpb" and 1000 with Elements(5) is "1000.0000 cycles/5".
C6_FormatThroughput ==
    fop = "format_throughput" =>
        /\ throughput.kind = "Bytes" =>
              out = Fmt4(FDiv(value, U64ToF64(throughput.n))) \o " cpb"
        /\ throughput.kind = "BytesDecimal" =>
              out = Fmt4(FDiv(value, U64ToF64(throughput.n))) \o " cpb (decimal)"
        /\ throughput.kind = "Elements" =>
              out = Fmt4(value) \o " cycles/" \o ToString(throughput.n)
        /\ (throughput = Bytes(16) /\ value = Fin(0, 25, 7)) => out = "200.0000 cpb"
        /\ (throughput = Bytes(2) /\ value = Fin(0, 125, 3)) => out = "500.0000 cpb"
        /\ (throughput = Bytes(3) /\ value = Fin(0, 125, 3)) => out = "333.3333 cpb"
        /\ (throughput = BytesDecimal(3) /\ value = Fin(0, 1, 3)) =>
              out = "2.6667 cpb (decimal)"
        /\ (throughput = Bytes(255) /\ value = Fin(0, 25, 7)) => out = "12.5490 cpb"
        /\ (throughput = BytesDecimal(16) /\ value = Fin(0, 1, -5)) =>
              out = "0.0020 cpb (decimal)"
        /\ (throughput = Elements(5) /\ value = Fin(0, 125, 3)) =>
              out = "1000.0000 cycles/5"

\* C6 witness: format_throughput has returned for 1000 and Elements(5).
C6_Witness ==
    /\ fop = "format_throughput"
    /\ throughput = Elements(5)
    /\ value = Fin(0, 125, 3)
    /\ out = "1000.0000 cycles/5"

\* C7: after scale_values and after scale_for_machines the slice is the
\* slice that was passed and the label is "cycles".
C7_ScaleValuesIdentity ==
    fop \in {"scale_values", "scale_for_machines"} =>
        (values = before /\ label = "cycles")

\* C7 witness: scale_values has returned for a slice of two nonzero elements
\* and a typical_value of 1000.
C7_Witness ==
    /\ fop = "scale_values"
    /\ typical = Fin(0, 125, 3)
    /\ before = <<Fin(0, 1, 3), Fin(0, 1, 4)>>

IsInfOrNaN(x) == x.k \in {"inf", "nan"}
ShownInfOrNaN(suffix) == {"inf" \o suffix, "-inf" \o suffix, "NaN" \o suffix}
SuffixOf(thr) ==
    IF thr.kind = "Bytes" THEN " cpb"
    ELSE IF thr.kind = "Elements" THEN " cycles/" \o ToString(thr.n)
    ELSE " cpb (decimal)"

\* C8 as stated: with a count of 0, format_throughput shows an infinite or
\* not-a-number result with the variant's label, and scale_throughputs makes
\* every element infinite or not-a-number.
C8_Original ==
    throughput.n = 0 =>
        /\ fop = "format_throughput" => out \in ShownInfOrNaN(SuffixOf(throughput))
        /\ fop = "scale_throughputs" =>
              /\ Len(values) = Len(before)
              /\ \A j \in 1 .. Len(values) : IsInfOrNaN(values[j])
              /\ label = LabelOf(throughput)

\* C8 amended: with a count of 0, format_throughput for Bytes(0) and
\* BytesDecimal(0) shows an infinite or not-a-number result with the
\* variant's label, format_throughput for Elements(0) shows the value itself
\* followed by " cycles/0", and scale_throughputs makes every element of the
\* slice infinite or not-a-number and returns the variant's label.
C8_ZeroCount ==
    throughput.n = 0 =>
        /\ (fop = "format_throughput" /\ throughput.kind # "Elements") =>
              out \in ShownInfOrNaN(SuffixOf(throughput))
        /\ (fop = "format_throughput" /\ throughput.kind = "Elements") =>
              out = Fmt4(value) \o " cycles/0"
        /\ fop = "scale_throughputs" =>
              /\ Len(values) = Len(before)
              /\ \A j \in 1 .. Len(values) : IsInfOrNaN(values[j])
              /\ label = LabelOf(throughput)

\* C8 witness: scale_throughputs has returned for a count of 0 and a slice
\* holding a zero and a nonzero element.
C8_Witness ==
    /\ fop = "scale_throughputs"
    /\ throughput = Bytes(0)
    /\ before = <<Fin(0, 0, 0), Fin(0, 1, 3)>>
    /\ values = <<NaN, Inf(0)>>

====
